---- MODULE Spec2Model ----
(***************************************************************************)
(* The sync_queue event store (internal/db/postgres.go), the Paycor webhook *)
(* that feeds it (internal/handlers.go) and the batch processor             *)
(* ProcessPendingEvents, as a state machine.                                *)
(*                                                                          *)
(* A row of sync_queue is a record; the table is the sequence rows, a row's *)
(* id being its index (SERIAL primary key).  Webhook requests and           *)
(* ProcessPendingEvents invocations are processes whose position is kept    *)
(* in req and pc: every SQL statement is one atomic step, and other         *)
(* processes may run between two statements of the same function.           *)
(***************************************************************************)
EXTENDS Integers, Sequences, FiniteSets, Bags, TLC

\* ---------------------------------------------------------------- bounds
MaxEvents == 2      \* webhook notifications accepted in one behaviour
MaxTime == 1        \* distinct readings of time.Now()
MaxFaults == 1      \* injected store failures and process crashes
MaxLimit == 1       \* largest limit a direct GetPendingEvents call passes

\* ------------------------------------------------------- program constants
BatchSize_Eleven == 10 + 1  \* mutant: p.GetPendingEvents(11), one too many
BatchSize == 10     \* ProcessPendingEvents: p.GetPendingEvents(10)
MaxErrorLen == 500  \* ProcessPendingEvents: len(errorDetail) > 500

Consumers == {1, 2}         \* ProcessPendingEvents invocations that may overlap
Requests == {1, 2}          \* webhook requests that may overlap

NULL == "<NULL>"            \* SQL NULL in a column
NoId == "<none>"            \* the handler produced no downstream object yet

EventTypes == {"", "employee.updated"}
JiraIds == {"OBJ-1"}   \* identifiers the downstream system hands out

TwoByte == {"é"}            \* characters that take two bytes in UTF-8
Fragment == "<é:1>"         \* the first byte of a two-byte character, alone

\* err.Error() of a handler failure: a string given as runs <<char, count>>
\* (here one message of 600 characters, longer than error_detail may get)
ErrMsgs == { << <<"a", 500>>, <<"b", 100>> >> }

VARIABLES
    rows,        \* sync_queue: Seq of rows, id = index
    schemaNull,  \* TRUE: jira_object_id has no default, an unwritten column is NULL
    now,         \* the clock time.Now() reads
    req,         \* bag of events built by webhook requests that are at InsertEvent
    resp,        \* status code of the last response the webhook wrote (0: none yet)
    pc,          \* position of each ProcessPendingEvents invocation
    batch,       \* events returned by GetPendingEvents to each invocation
    idx,         \* index of the event the for loop is at
    herr,        \* what handler(event) returned: "nil" or the error message
    ret,         \* what the invocation returned: "none", "nil", "error"
    nCons,       \* number of consumers of the deployment (1 or 2)
    jiraUp,      \* the downstream system is reachable: a handler call made now succeeds
    faults,      \* store failures and crashes still to inject
    calls,       \* per event id: number of handler invocations so far
    produced,    \* per event id: downstream id the last successful handler call made
    handled,     \* per invocation: ids the handler was called for in this invocation
    attempt,     \* per invocation: the attempt on the current event: its id, the
                 \* retry_count it began with, and the outcome once it is recorded
    storeErr,    \* per invocation: a store operation failed in this invocation
    q,           \* last direct GetPendingEvents(limit) call: [limit, err, events]
    msgs,        \* the error messages the handler of this deployment may return
    u,           \* what the last direct call of UpdateEventStatus returned
    given,       \* the payload InsertEvent was called with, by the id it assigned
    bodies,      \* the bodies the requests of this run may carry
    sync         \* the run of the server's sync loop (cmd/server/main.go)

vars == <<rows, schemaNull, now, req, resp, pc, batch, idx, herr, ret, nCons, jiraUp,
          faults, calls, produced, handled, attempt, storeErr, q, msgs, u, given, bodies, sync>>

\* ------------------------------------------------------------- helpers
Min(a, b) == IF a < b THEN a ELSE b

Range(s) == {s[i] : i \in DOMAIN s}

\* bytes of one character in UTF-8: Go strings are byte strings
Width(ch) == IF ch \in TwoByte THEN 2 ELSE 1

RECURSIVE MsgLen(_)
\* len(errorDetail): the number of bytes of a run-encoded string
MsgLen(m) == IF m = <<>> THEN 0 ELSE m[1][2] * Width(m[1][1]) + MsgLen(Tail(m))

RECURSIVE Prefix(_, _)
\* errorDetail[:k]: the first k bytes of a run-encoded string; a character cut
\* in the middle leaves a fragment that is no character
Prefix(m, k) ==
    IF k = 0 \/ m = <<>> THEN <<>>
    ELSE LET ch == m[1][1]
             n == m[1][2]
             w == Width(ch)
         IN  IF n * w <= k
             THEN <<m[1]>> \o Prefix(Tail(m), k - n * w)
             ELSE (IF k \div w > 0 THEN << <<ch, k \div w>> >> ELSE <<>>)
                  \o (IF k % w > 0 THEN << <<Fragment, 1>> >> ELSE <<>>)

\* ProcessPendingEvents lines 218-222: truncate long error messages
Truncate(m) == IF MsgLen(m) > MaxErrorLen THEN Prefix(m, MaxErrorLen) ELSE m

\* --- encoding/json on model.PaycorWebhookPayload. A JSON object is the
\* sequence of its <<key, value>> members; the text of a time is given by the
\* instant it names and the zone suffix it is written with.
Has(j, k) == \E kv \in Range(j) : kv[1] = k

Get(j, k) == (CHOOSE kv \in Range(j) : kv[1] = k)[2]

\* a member tagged omitempty is left out when it holds its zero value
OmitEmpty(k, v, zero) == IF v = zero THEN <<>> ELSE << <<k, v>> >>

\* hours east of UTC of a time.Location: UTC, or the zone time.Parse made up
\* (or found to be Local) for a text written with that offset
Offset(loc) == IF loc = "-05:00" THEN 0 - 5 ELSE 0

\* Time.MarshalJSON: RFC 3339, the suffix is Z whenever the offset is zero
FormatTime(t) == [instant |-> t.sec, zone |-> IF Offset(t.loc) = 0 THEN "Z" ELSE t.loc]

\* Time.UnmarshalJSON: Z gives UTC, a numeric offset gives a zone of that offset
ParseTime(txt) == [sec |-> txt.instant, loc |-> IF txt.zone = "Z" THEN "UTC" ELSE txt.zone]

\* a nil *PositionData
NilPosition == [nil |-> TRUE, JobTitle |-> "", StandardHours |-> 0]

MarshalPosition(p) ==
    OmitEmpty("jobTitle", p.JobTitle, "") \o OmitEmpty("standardHours", p.StandardHours, 0)

UnmarshalPosition(j) ==
    [nil |-> FALSE,
     JobTitle |-> IF Has(j, "jobTitle") THEN Get(j, "jobTitle") ELSE "",
     StandardHours |-> IF Has(j, "standardHours") THEN Get(j, "standardHours") ELSE 0]

\* PaycorEmployee: a member without omitempty, one with, and a pointer
MarshalEmployee(e) ==
    << <<"firstName", e.FirstName>> >>
        \o OmitEmpty("middleName", e.MiddleName, "")
        \o (IF e.PositionData.nil THEN <<>>
            ELSE << <<"positionData", MarshalPosition(e.PositionData)>> >>)

UnmarshalEmployee(j) ==
    [FirstName |-> IF Has(j, "firstName") THEN Get(j, "firstName") ELSE "",
     MiddleName |-> IF Has(j, "middleName") THEN Get(j, "middleName") ELSE "",
     PositionData |-> IF Has(j, "positionData")
                      THEN UnmarshalPosition(Get(j, "positionData")) ELSE NilPosition]

\* json.Marshal(event.Payload): the JSON object, as its key/value pairs
MarshalPayload(p) ==
    << <<"eventType", p.EventType>>, <<"eventId", p.EventID>>,
       <<"eventTime", FormatTime(p.EventTime)>>, <<"apiClientId", p.APIClientID>>,
       <<"body", MarshalEmployee(p.Body)>> >>

\* json.Unmarshal(payloadJSON, &event.Payload)
UnmarshalPayload(j) ==
    [EventType |-> Get(j, "eventType"),
     EventID |-> Get(j, "eventId"),
     EventTime |-> ParseTime(Get(j, "eventTime")),
     APIClientID |-> Get(j, "apiClientId"),
     Body |-> UnmarshalEmployee(Get(j, "body"))]

\* ----------------------------------------------------------- the store
\* mutant: WHERE status = 'Processing' (the wrong status literal)
PendingIds_Processing(rs) == {i \in DOMAIN rs : rs[i].status = "Processing"}

\* mutant: WHERE status IN ('Pending', 'Failed') (failed events are queued again)
PendingIds_WithFailed(rs) == {i \in DOMAIN rs : rs[i].status \in {"Pending", "Failed"}}

\* mutant: WHERE status IN ('Pending', 'Processing') (unfinished events are
\* picked up again)
PendingIds_OrProcessing(rs) == {i \in DOMAIN rs : rs[i].status \in {"Pending", "Processing"}}

\* WHERE status = 'Pending'
PendingIds(rs) == {i \in DOMAIN rs : rs[i].status = "Pending"}

\* mutant: the LIMIT clause is missing
SelectPending_NoLimit(rs, n) ==
    LET P == {i \in DOMAIN rs : rs[i].status = "Pending"}
        k == Cardinality(P)
    IN  {s \in [1..k -> P] :
            /\ \A i, j \in 1..k : i < j => s[i] # s[j]
            /\ \A i, j \in 1..k : i < j => rs[s[i]].createdAt <= rs[s[j]].createdAt}

\* mutant: ORDER BY id ASC instead of created_at
SelectPending_ById(rs, n) ==
    LET P == {i \in DOMAIN rs : rs[i].status = "Pending"}
        k == Min(n, Cardinality(P))
    IN  {s \in [1..k -> P] :
            /\ \A i, j \in 1..k : i < j => s[i] < s[j]
            /\ \A p \in P \ Range(s) : \A i \in 1..k : s[i] < p}

RECURSIVE PickOldest(_, _, _)
\* the ways to list k ids of P in ascending created_at, an oldest one first
PickOldest(rs, P, k) ==
    IF k = 0 \/ P = {} THEN {<<>>}
    ELSE UNION {{<<p>> \o s : s \in PickOldest(rs, P \ {p}, k - 1)} :
                  p \in {o \in P : \A r \in P : rs[o].createdAt <= rs[r].createdAt}}

\* SELECT ... WHERE status = 'Pending' ORDER BY created_at ASC LIMIT n:
\* every order of the ids the statement may return (rows of equal created_at
\* come in any order, and any of them may fall to the limit)
SelectPending(rs, n) == PickOldest(rs, PendingIds(rs), n)

\* rows.Scan into a SyncEvent and json.Unmarshal of the payload
ScanRow(rs, i) ==
    [ID |-> i, EventType |-> rs[i].eventType, Payload |-> UnmarshalPayload(rs[i].payload),
     Status |-> rs[i].status, CreatedAt |-> rs[i].createdAt, UpdatedAt |-> rs[i].updatedAt,
     RetryCount |-> rs[i].retryCount, ErrorDetail |-> rs[i].errorDetail,
     JiraObjectID |-> rs[i].jiraObjectID]

\* GetPendingEvents(limit) on a reachable store: the results it may return.
\* Scanning a NULL jira_object_id into a Go string fails the whole call.
GetPendingEvents(rs, n) ==
    {IF \E i \in 1..Len(s) : rs[s[i]].jiraObjectID = NULL
       THEN [err |-> TRUE, events |-> <<>>]
       ELSE [err |-> FALSE, events |-> [i \in 1..Len(s) |-> ScanRow(rs, s[i])]]
     : s \in SelectPending(rs, n)}

\* the value of a column an INSERT does not list: the column's default, which
\* is NULL for a nullable column declared without one
UnwrittenColumn(null) == IF null THEN NULL ELSE ""

\* mutant: event_type and status bound to each other's placeholder
InsertEvent_Swapped(rs, e, null) ==
    Append(rs, [eventType |-> e.Status, payload |-> MarshalPayload(e.Payload),
                status |-> e.EventType, createdAt |-> e.CreatedAt, updatedAt |-> e.UpdatedAt,
                retryCount |-> e.RetryCount, errorDetail |-> e.ErrorDetail,
                jiraObjectID |-> UnwrittenColumn(null)])

\* InsertEvent: the row the INSERT statement adds (jira_object_id is not written)
InsertEvent(rs, e, null) ==
    Append(rs, [eventType |-> e.EventType, payload |-> MarshalPayload(e.Payload),
                status |-> e.Status, createdAt |-> e.CreatedAt, updatedAt |-> e.UpdatedAt,
                retryCount |-> e.RetryCount, errorDetail |-> e.ErrorDetail,
                jiraObjectID |-> UnwrittenColumn(null)])

\* mutant: jira_object_id = COALESCE(NULLIF($4, ''), jira_object_id), an empty
\* identifier leaves the stored one
UpdateEventStatus_KeepId(rs, id, status, errorDetail, jiraObjectID, t) ==
    [i \in DOMAIN rs |->
        IF i = id
        THEN [rs[i] EXCEPT !.status = status, !.updatedAt = t,
                           !.errorDetail = errorDetail,
                           !.jiraObjectID = IF jiraObjectID = "" THEN @ ELSE jiraObjectID]
        ELSE rs[i]]

\* mutant: error_detail = COALESCE(NULLIF($3, ''), error_detail), an empty
\* detail leaves the stored one
UpdateEventStatus_KeepDetail(rs, id, status, errorDetail, jiraObjectID, t) ==
    [i \in DOMAIN rs |->
        IF i = id
        THEN [rs[i] EXCEPT !.status = status, !.updatedAt = t,
                           !.errorDetail = IF errorDetail = <<>> THEN @ ELSE errorDetail,
                           !.jiraObjectID = jiraObjectID]
        ELSE rs[i]]

\* UpdateEventStatus: UPDATE ... WHERE id = $5 (no row matched is not an error)
UpdateEventStatus(rs, id, status, errorDetail, jiraObjectID, t) ==
    [i \in DOMAIN rs |->
        IF i = id
        THEN [rs[i] EXCEPT !.status = status, !.updatedAt = t,
                           !.errorDetail = errorDetail, !.jiraObjectID = jiraObjectID]
        ELSE rs[i]]

\* UpdateEventStatus on a reachable store: what it returns. The result of
\* Exec (the number of rows the UPDATE matched) is dropped, only its error is
\* looked at, and an UPDATE that matches no row is no error.
UpdateEventStatusReturn(rs, id) == "nil"

\* mutant: the increment also puts the event back in the queue
IncrementRetryCount_Requeue(rs, id, t) ==
    [i \in DOMAIN rs |->
        IF i = id
        THEN [rs[i] EXCEPT !.retryCount = @ + 1, !.updatedAt = t, !.status = "Pending"]
        ELSE rs[i]]

\* mutant: the WHERE clause is missing, every row is incremented
IncrementRetryCount_AllRows(rs, id, t) ==
    [i \in DOMAIN rs |-> [rs[i] EXCEPT !.retryCount = @ + 1, !.updatedAt = t]]

\* IncrementRetryCount: UPDATE ... SET retry_count = retry_count + 1 WHERE id = $2
IncrementRetryCount(rs, id, t) ==
    [i \in DOMAIN rs |->
        IF i = id
        THEN [rs[i] EXCEPT !.retryCount = @ + 1, !.updatedAt = t]
        ELSE rs[i]]

\* ------------------------------------------------------- request bodies
\* a request body: whether it is JSON of the right shape, and its members
\* (eventType may be missing)
Body(json, type, time, employee) ==
    [json |-> json, EventType |-> type, EventID |-> "e1", EventTime |-> time,
     APIClientID |-> "paycor", Body |-> employee]

\* request bodies: not JSON (or JSON of the wrong shape), JSON without an
\* eventType member, JSON with an empty or a non-empty eventType
Bodies ==
    {Body(FALSE, NULL, [instant |-> 0, zone |-> "Z"], <<>>),
     Body(TRUE, NULL, [instant |-> 0, zone |-> "Z"], <<>>)}
        \cup {Body(TRUE, t, [instant |-> 0, zone |-> "Z"], <<>>) : t \in EventTypes}

\* json.NewDecoder(r.Body).Decode(&payload): the payload of a well-formed
\* body; a member the body does not have keeps Go's zero value
Decode(body) ==
    [EventType |-> IF body.EventType = NULL THEN "" ELSE body.EventType,
     EventID |-> body.EventID,
     EventTime |-> ParseTime(body.EventTime),
     APIClientID |-> body.APIClientID,
     Body |-> UnmarshalEmployee(body.Body)]

\* lines 91-99: the event the webhook builds from a payload
NewEvent(payload, t) ==
    [EventType |-> payload.EventType, Payload |-> payload,
     Status |-> "Pending", CreatedAt |-> t, UpdatedAt |-> t,
     RetryCount |-> 0, ErrorDetail |-> <<>>]

\* ------------------------------------------------------------- initial state
NoErr == [err |-> FALSE, msg |-> <<>>]

NoAttempt == [id |-> 0, retry |-> 0, outcome |-> "none"]

\* the sync loop is not running
NoSync == [pc |-> "off"]

NoQuery == [limit |-> 0, err |-> FALSE, events |-> <<>>, asked |-> FALSE]

InitCommon ==
    /\ rows = <<>>
    /\ now = 0
    /\ req = EmptyBag
    /\ resp = 0
    /\ pc = [c \in Consumers |-> "idle"]
    /\ batch = [c \in Consumers |-> <<>>]
    /\ idx = [c \in Consumers |-> 0]
    /\ herr = [c \in Consumers |-> NoErr]
    /\ ret = [c \in Consumers |-> "none"]
    /\ jiraUp \in BOOLEAN
    /\ calls = [i \in 1..MaxEvents |-> 0]
    /\ produced = [i \in 1..MaxEvents |-> NoId]
    /\ handled = [c \in Consumers |-> {}]
    /\ attempt = [c \in Consumers |-> NoAttempt]
    /\ storeErr = [c \in Consumers |-> FALSE]
    /\ q = NoQuery
    /\ u = "none"
    /\ given = <<>>
    /\ sync = NoSync

\* one consumer, as the design assumes; the store may fail, the process may crash
Init ==
    /\ InitCommon
    /\ msgs = ErrMsgs
    /\ bodies = Bodies
    /\ nCons = 1
    /\ schemaNull \in BOOLEAN
    /\ faults = MaxFaults

\* ------------------------------------------------------------- the webhook
\* mutant: the check of payload.EventType is missing
Receive_NoValidation(body) ==
    /\ BagCardinality(req) < Cardinality(Requests)
    /\ Len(rows) + BagCardinality(req) < MaxEvents
    /\ IF ~body.json
       THEN resp' = 400 /\ UNCHANGED req
       ELSE /\ req' = req (+) SetToBag({NewEvent(Decode(body), now)})
            /\ UNCHANGED resp
    /\ UNCHANGED <<msgs, sync, bodies, given, u, rows, schemaNull, now, pc, batch, idx, herr, ret, nCons, jiraUp,
                   faults, calls, produced, handled, attempt, storeErr, q>>

\* handlePaycorWebhook with this body up to the call of InsertEvent: decode,
\* validate, build the event
Receive(body) ==
    /\ BagCardinality(req) < Cardinality(Requests)
    /\ Len(rows) + BagCardinality(req) < MaxEvents
    /\ IF ~body.json
       THEN resp' = 400 /\ UNCHANGED req
       ELSE IF Decode(body).EventType = ""
       THEN resp' = 400 /\ UNCHANGED req
       ELSE /\ req' = req (+) SetToBag({NewEvent(Decode(body), now)})
            /\ UNCHANGED resp
    /\ UNCHANGED <<msgs, sync, bodies, given, u, rows, schemaNull, now, pc, batch, idx, herr, ret, nCons, jiraUp,
                   faults, calls, produced, handled, attempt, storeErr, q>>

WebhookReceive == \E body \in bodies : Receive(body)

\* mutant: the webhook waits for the processing loop (one lock for both)
WebhookInsert_WhenIdle ==
    \E event \in BagToSet(req) :
        /\ \A c \in Consumers : pc[c] = "idle"
        /\ rows' = InsertEvent(rows, event, schemaNull)
        /\ req' = req (-) SetToBag({event})
        /\ resp' = 202
        /\ given' = Append(given, event.Payload)
        /\ UNCHANGED <<msgs, sync, bodies, u, schemaNull, now, pc, batch, idx, herr, ret, nCons, jiraUp,
                       faults, calls, produced, handled, attempt, storeErr, q>>

\* handlePaycorWebhook from InsertEvent on, the insert succeeding: 202 Accepted
WebhookInsert ==
    \E event \in BagToSet(req) :
        /\ rows' = InsertEvent(rows, event, schemaNull)
        /\ req' = req (-) SetToBag({event})
        /\ resp' = 202
        /\ given' = Append(given, event.Payload)
        /\ UNCHANGED <<msgs, sync, bodies, u, schemaNull, now, pc, batch, idx, herr, ret, nCons, jiraUp,
                       faults, calls, produced, handled, attempt, storeErr, q>>

\* mutant: a notification whose insert failed is kept and inserted later
WebhookInsertFail_Retained ==
    \E event \in BagToSet(req) :
        /\ faults > 0
        /\ faults' = faults - 1
        /\ resp' = 500
        /\ UNCHANGED <<msgs, sync, bodies, given, u, rows, schemaNull, now, req, pc, batch, idx, herr, ret, nCons,
                       jiraUp, calls, produced, handled, attempt, storeErr, q>>

\* handlePaycorWebhook from InsertEvent on, the insert failing: 500
WebhookInsertFail ==
    \E event \in BagToSet(req) :
        /\ faults > 0
        /\ faults' = faults - 1
        /\ req' = req (-) SetToBag({event})
        /\ resp' = 500
        /\ UNCHANGED <<msgs, sync, bodies, given, u, rows, schemaNull, now, pc, batch, idx, herr, ret, nCons, jiraUp,
                       calls, produced, handled, attempt, storeErr, q>>

\* time passes
Tick ==
    /\ now < MaxTime
    /\ now' = now + 1
    /\ UNCHANGED <<msgs, sync, bodies, given, u, resp, rows, schemaNull, req, pc, batch, idx, herr, ret, nCons, jiraUp,
                   faults, calls, produced, handled, attempt, storeErr, q>>

\* the downstream system becomes unreachable, or reachable again
JiraFlip ==
    /\ jiraUp' = ~jiraUp
    /\ UNCHANGED <<msgs, sync, bodies, given, u, resp, rows, schemaNull, now, req, pc, batch, idx, herr, ret, nCons,
                   faults, calls, produced, handled, attempt, storeErr, q>>

\* ------------------------------------------------- ProcessPendingEvents
Cur(c) == batch[c][idx[c]]

\* lines 201-205 and the loop head: GetPendingEvents(10) answers
Start(c) ==
    /\ c <= nCons
    /\ pc[c] = "idle"
    /\ \E res \in GetPendingEvents(rows, BatchSize) :
          /\ batch' = [batch EXCEPT ![c] = res.events]
          /\ storeErr' = [storeErr EXCEPT ![c] = res.err]
          /\ IF res.err
             THEN /\ pc' = [pc EXCEPT ![c] = "returned"]
                  /\ ret' = [ret EXCEPT ![c] = "error"]
                  /\ idx' = [idx EXCEPT ![c] = 0]
             ELSE IF res.events = <<>>
             THEN /\ pc' = [pc EXCEPT ![c] = "returned"]
                  /\ ret' = [ret EXCEPT ![c] = "nil"]
                  /\ idx' = [idx EXCEPT ![c] = 0]
             ELSE /\ pc' = [pc EXCEPT ![c] = "mark"]
                  /\ ret' = [ret EXCEPT ![c] = "none"]
                  /\ idx' = [idx EXCEPT ![c] = 1]
    /\ handled' = [handled EXCEPT ![c] = {}]
    /\ herr' = [herr EXCEPT ![c] = NoErr]
    /\ UNCHANGED <<msgs, sync, bodies, given, u, resp, rows, schemaNull, now, req, nCons, jiraUp, faults, calls, produced,
                   attempt, q>>

\* mutant: the error of the query is swallowed (return nil)
StartFail_Swallowed(c) ==
    /\ c <= nCons
    /\ pc[c] = "idle"
    /\ faults > 0
    /\ faults' = faults - 1
    /\ pc' = [pc EXCEPT ![c] = "returned"]
    /\ ret' = [ret EXCEPT ![c] = "nil"]
    /\ storeErr' = [storeErr EXCEPT ![c] = TRUE]
    /\ batch' = [batch EXCEPT ![c] = <<>>]
    /\ idx' = [idx EXCEPT ![c] = 0]
    /\ handled' = [handled EXCEPT ![c] = {}]
    /\ herr' = [herr EXCEPT ![c] = NoErr]
    /\ UNCHANGED <<msgs, sync, bodies, given, u, resp, rows, schemaNull, now, req, nCons, jiraUp, calls, produced, attempt, q>>

\* lines 202-205: the query itself fails (store unreachable)
StartFail(c) ==
    /\ c <= nCons
    /\ pc[c] = "idle"
    /\ faults > 0
    /\ faults' = faults - 1
    /\ pc' = [pc EXCEPT ![c] = "returned"]
    /\ ret' = [ret EXCEPT ![c] = "error"]
    /\ storeErr' = [storeErr EXCEPT ![c] = TRUE]
    /\ batch' = [batch EXCEPT ![c] = <<>>]
    /\ idx' = [idx EXCEPT ![c] = 0]
    /\ handled' = [handled EXCEPT ![c] = {}]
    /\ herr' = [herr EXCEPT ![c] = NoErr]
    /\ UNCHANGED <<msgs, sync, bodies, given, u, resp, rows, schemaNull, now, req, nCons, jiraUp, calls, produced, attempt, q>>

\* mutant: the update claims the event, WHERE id = $5 AND status = 'Pending',
\* and goes on only if it matched the row
MarkProcessing_Claim(c) ==
    /\ pc[c] = "mark"
    /\ rows[Cur(c).ID].status = "Pending"
    /\ attempt' = [attempt EXCEPT ![c] =
          [id |-> Cur(c).ID, retry |-> rows[Cur(c).ID].retryCount, outcome |-> "open"]]
    /\ rows' = UpdateEventStatus(rows, Cur(c).ID, "Processing", <<>>, "", now)
    /\ pc' = [pc EXCEPT ![c] = "handler"]
    /\ UNCHANGED <<msgs, sync, bodies, given, u, resp, schemaNull, now, req, batch, idx, herr, ret,
                   nCons, jiraUp, faults, calls, produced, handled, storeErr, q>>

\* line 209: UpdateEventStatus(event.ID, "Processing", "", "")
MarkProcessing(c) ==
    /\ pc[c] = "mark"
    /\ attempt' = [attempt EXCEPT ![c] =
          [id |-> Cur(c).ID, retry |-> rows[Cur(c).ID].retryCount, outcome |-> "open"]]
    /\ rows' = UpdateEventStatus(rows, Cur(c).ID, "Processing", <<>>, "", now)
    /\ pc' = [pc EXCEPT ![c] = "handler"]
    /\ UNCHANGED <<msgs, sync, bodies, given, u, resp, schemaNull, now, req, batch, idx, herr, ret, nCons, jiraUp, faults,
                   calls, produced, handled, storeErr, q>>

\* line 214: err := handler(event); the handler gets a copy of the event, and
\* whether it succeeds is up to the downstream system
CallHandler(c) ==
    /\ pc[c] = "handler"
    /\ calls' = [calls EXCEPT ![Cur(c).ID] = @ + 1]
    /\ handled' = [handled EXCEPT ![c] = @ \cup {Cur(c).ID}]
    /\ \/ /\ jiraUp
          /\ \E x \in JiraIds : produced' = [produced EXCEPT ![Cur(c).ID] = x]
          /\ herr' = [herr EXCEPT ![c] = NoErr]
          /\ pc' = [pc EXCEPT ![c] = "success"]
       \/ /\ ~jiraUp
          /\ \E m \in msgs : herr' = [herr EXCEPT ![c] = [err |-> TRUE, msg |-> m]]
          /\ pc' = [pc EXCEPT ![c] = "failed"]
          /\ UNCHANGED produced
    /\ UNCHANGED <<msgs, sync, bodies, given, u, resp, rows, schemaNull, now, req, batch, idx, ret, nCons, jiraUp, faults,
                   attempt, storeErr, q>>

\* mutant: a handler failure, once recorded, is returned and ends the batch
Advance_AbortOnFailure(c) ==
    /\ herr' = [herr EXCEPT ![c] = NoErr]
    /\ IF herr[c].err
       THEN /\ pc' = [pc EXCEPT ![c] = "returned"]
            /\ ret' = [ret EXCEPT ![c] = "error"]
            /\ UNCHANGED idx
       ELSE /\ idx' = [idx EXCEPT ![c] = @ + 1]
            /\ IF idx[c] = Len(batch[c])
               THEN /\ pc' = [pc EXCEPT ![c] = "returned"]
                    /\ ret' = [ret EXCEPT ![c] = "nil"]
               ELSE /\ pc' = [pc EXCEPT ![c] = "mark"]
                    /\ UNCHANGED ret

\* the for loop moves to the next event, or line 240: return nil
Advance(c) ==
    /\ idx' = [idx EXCEPT ![c] = @ + 1]
    /\ herr' = [herr EXCEPT ![c] = NoErr]
    /\ IF idx[c] = Len(batch[c])
       THEN /\ pc' = [pc EXCEPT ![c] = "returned"]
            /\ ret' = [ret EXCEPT ![c] = "nil"]
       ELSE /\ pc' = [pc EXCEPT ![c] = "mark"]
            /\ UNCHANGED ret

\* mutant: a failed event goes back to Pending to be tried again
MarkFailed_Requeue(c) ==
    /\ pc[c] = "failed"
    /\ rows' = UpdateEventStatus(rows, Cur(c).ID, "Pending", Truncate(herr[c].msg), "", now)
    /\ pc' = [pc EXCEPT ![c] = "increment"]
    /\ UNCHANGED <<msgs, sync, bodies, given, u, resp, schemaNull, now, req, batch, idx, herr, ret,
                   nCons, jiraUp, faults, calls, produced, handled, attempt, storeErr, q>>

\* lines 217-224: UpdateEventStatus(event.ID, "Failed", errorDetail, "")
MarkFailed(c) ==
    /\ pc[c] = "failed"
    /\ rows' = UpdateEventStatus(rows, Cur(c).ID, "Failed", Truncate(herr[c].msg), "", now)
    /\ pc' = [pc EXCEPT ![c] = "increment"]
    /\ UNCHANGED <<msgs, sync, bodies, given, u, resp, schemaNull, now, req, batch, idx, herr, ret, nCons, jiraUp, faults,
                   calls, produced, handled, attempt, storeErr, q>>

\* line 229: IncrementRetryCount(event.ID)
Increment(c) ==
    /\ pc[c] = "increment"
    /\ rows' = IncrementRetryCount(rows, Cur(c).ID, now)
    /\ attempt' = [attempt EXCEPT ![c].outcome = "failed"]
    /\ Advance(c)
    /\ UNCHANGED <<msgs, sync, bodies, given, u, resp, schemaNull, now, req, batch, nCons, jiraUp, faults,
                   calls, produced, handled, storeErr, q>>

\* line 234: UpdateEventStatus(event.ID, "Success", "", event.JiraObjectID)
MarkSuccess(c) ==
    /\ pc[c] = "success"
    /\ rows' = UpdateEventStatus(rows, Cur(c).ID, "Success", <<>>, Cur(c).JiraObjectID, now)
    /\ attempt' = [attempt EXCEPT ![c].outcome = "success"]
    /\ Advance(c)
    /\ UNCHANGED <<msgs, sync, bodies, given, u, resp, schemaNull, now, req, batch, nCons, jiraUp, faults,
                   calls, produced, handled, storeErr, q>>

\* mutant: a failed store write is logged and the loop moves to the next event
UpdateFail_SkipEvent(c) ==
    /\ pc[c] \in {"mark", "failed", "increment", "success"}
    /\ faults > 0
    /\ faults' = faults - 1
    /\ storeErr' = [storeErr EXCEPT ![c] = TRUE]
    /\ Advance(c)
    /\ UNCHANGED <<msgs, sync, bodies, given, u, resp, rows, schemaNull, now, req, batch,
                   nCons, jiraUp, calls, produced, handled, attempt, q>>

\* mutant: the error of the update to Processing is dropped and the loop goes on
UpdateFail_Ignored(c) ==
    /\ pc[c] \in {"mark", "failed", "increment", "success"}
    /\ faults > 0
    /\ faults' = faults - 1
    /\ IF pc[c] = "mark"
       THEN /\ pc' = [pc EXCEPT ![c] = "handler"]
            /\ UNCHANGED <<ret, storeErr>>
       ELSE /\ pc' = [pc EXCEPT ![c] = "returned"]
            /\ ret' = [ret EXCEPT ![c] = "error"]
            /\ storeErr' = [storeErr EXCEPT ![c] = TRUE]
    /\ UNCHANGED <<msgs, sync, bodies, given, u, resp, rows, schemaNull, now, req, batch, idx, herr,
                   nCons, jiraUp, calls, produced, handled, attempt, q>>

\* lines 210, 225, 230, 235: the store write fails and the error is returned
UpdateFail(c) ==
    /\ pc[c] \in {"mark", "failed", "increment", "success"}
    /\ faults > 0
    /\ faults' = faults - 1
    /\ pc' = [pc EXCEPT ![c] = "returned"]
    /\ ret' = [ret EXCEPT ![c] = "error"]
    /\ storeErr' = [storeErr EXCEPT ![c] = TRUE]
    /\ UNCHANGED <<msgs, sync, bodies, given, u, resp, rows, schemaNull, now, req, batch, idx, herr, nCons, jiraUp,
                   calls, produced, handled, attempt, q>>

\* the caller has the result; ProcessPendingEvents can be invoked again
Return(c) ==
    /\ pc[c] = "returned"
    /\ pc' = [pc EXCEPT ![c] = "idle"]
    /\ ret' = [ret EXCEPT ![c] = "none"]
    /\ batch' = [batch EXCEPT ![c] = <<>>]
    /\ idx' = [idx EXCEPT ![c] = 0]
    /\ herr' = [herr EXCEPT ![c] = NoErr]
    /\ handled' = [handled EXCEPT ![c] = {}]
    /\ attempt' = [attempt EXCEPT ![c] = NoAttempt]
    /\ storeErr' = [storeErr EXCEPT ![c] = FALSE]
    /\ UNCHANGED <<msgs, sync, bodies, given, u, resp, rows, schemaNull, now, req, nCons, jiraUp, faults, calls, produced, q>>

\* the process is killed and restarted: every request and invocation is gone
Crash ==
    /\ faults > 0
    /\ \/ \E c \in Consumers : pc[c] # "idle"
       \/ req # EmptyBag
    /\ faults' = faults - 1
    /\ req' = EmptyBag
    /\ pc' = [c \in Consumers |-> "idle"]
    /\ ret' = [c \in Consumers |-> "none"]
    /\ batch' = [c \in Consumers |-> <<>>]
    /\ idx' = [c \in Consumers |-> 0]
    /\ herr' = [c \in Consumers |-> NoErr]
    /\ handled' = [c \in Consumers |-> {}]
    /\ attempt' = [c \in Consumers |-> NoAttempt]
    /\ storeErr' = [c \in Consumers |-> FALSE]
    /\ UNCHANGED <<msgs, sync, bodies, given, u, resp, rows, schemaNull, now, nCons, jiraUp, calls, produced, q>>

\* ------------------------------------------------------ specifications
ConsumerOk(c) ==
    \/ Start(c)
    \/ MarkProcessing(c)
    \/ CallHandler(c)
    \/ MarkFailed(c)
    \/ Increment(c)
    \/ MarkSuccess(c)
    \/ Return(c)

NextOk ==
    \/ WebhookReceive
    \/ WebhookInsert
    \/ Tick
    \/ JiraFlip
    \/ \E c \in Consumers : ConsumerOk(c)

NextFault ==
    \/ WebhookInsertFail
    \/ \E c \in Consumers : StartFail(c)
    \/ \E c \in Consumers : UpdateFail(c)
    \/ Crash

Next == NextOk \/ NextFault

Spec == Init /\ [][Next]_vars

\* --------------------------------------- a direct call of GetPendingEvents
\* any client of the store calls GetPendingEvents(n) and keeps what it returns
Query ==
    /\ \E n \in 0..MaxLimit : \E res \in GetPendingEvents(rows, n) :
          q' = [limit |-> n, err |-> res.err, events |-> res.events, asked |-> TRUE]
    /\ UNCHANGED <<msgs, sync, bodies, given, u, rows, schemaNull, now, req, resp, pc, batch, idx, herr, ret, nCons,
                   jiraUp, faults, calls, produced, handled, attempt, storeErr>>

InitQuery ==
    /\ InitCommon
    /\ msgs = ErrMsgs
    /\ bodies = Bodies
    /\ nCons = 1
    /\ schemaNull \in BOOLEAN
    /\ faults = 0

\* the client is done with the result
QueryDone ==
    /\ q.asked
    /\ q' = NoQuery
    /\ UNCHANGED <<msgs, sync, bodies, given, u, rows, schemaNull, now, req, resp, pc, batch, idx, herr, ret, nCons,
                   jiraUp, faults, calls, produced, handled, attempt, storeErr>>

\* the system runs; at any moment a client queries the pending events and looks
\* at the result before the store changes again
NextQuery ==
    \/ ~q.asked /\ NextOk
    \/ Query
    \/ QueryDone

SpecQuery == InitQuery /\ [][NextQuery]_vars

\* Single consumer, store operations succeed, every invocation runs on and is
\* followed by another one (the surrounding scheduler), every handler call returns.
InitFair ==
    /\ InitCommon
    /\ msgs = ErrMsgs
    /\ bodies = Bodies
    /\ nCons = 1
    /\ schemaNull = FALSE
    /\ faults = 0

FairSpec == InitFair /\ [][NextOk]_vars /\ WF_vars(ConsumerOk(1))

\* ------------------------------------------------------------------ claims
Ids == 1..MaxEvents

Accepted(i) == i <= Len(rows)

\* C1: at-least-once delivery. With one consumer, ProcessPendingEvents invoked
\* again and again and store operations succeeding, every event the webhook
\* accepted eventually is no longer Pending and has had the handler invoked.
C1_AtLeastOnce ==
    \A i \in Ids :
        Accepted(i) ~> (Accepted(i) /\ rows[i].status # "Pending" /\ calls[i] >= 1)

\* an event accepted after an earlier one failed is delivered too
C1_Witness ==
    /\ Accepted(2)
    /\ rows[1].status = "Failed"
    /\ rows[2].status # "Pending"
    /\ calls[2] >= 1

\* C2: no accepted event is lost to a transient downstream failure. An event
\* whose handler call failed during an outage reaches Success once the outage
\* is over for good (from then on a handler call for it would succeed).
C2_NoEventLost ==
    \A i \in Ids :
        (Accepted(i) /\ rows[i].status = "Failed" /\ jiraUp)
            ~> (~jiraUp \/ (Accepted(i) /\ rows[i].status = "Success"))

StatusSteps ==
    {<<"Pending", "Processing">>, <<"Processing", "Success">>, <<"Processing", "Failed">>}

\* C3: with a single consumer the only status changes are Pending->Processing,
\* Processing->Success and Processing->Failed; a Success or Failed event never
\* changes status again and never returns to Pending.
C3_StatusTransitions ==
    [][\A i \in 1..Len(rows) :
          rows'[i].status # rows[i].status
              => <<rows[i].status, rows'[i].status>> \in StatusSteps]_vars

\* both outcomes have been recorded and the consumer has been invoked again
C3_Witness ==
    /\ \E i \in 1..Len(rows) : rows[i].status = "Success"
    /\ \E i \in 1..Len(rows) : rows[i].status = "Failed"
    /\ pc[1] = "returned"
    /\ batch[1] = <<>>

EventIds(events) == {events[k].ID : k \in 1..Len(events)}

\* the attempt on an event failed and both store updates of the failure are done
FailedAttemptDone(c) == attempt[c].outcome = "failed"

\* C4: when the handler fails for an event and both store updates succeed, at
\* the end of the attempt retryCount is one more than before it and status is
\* Failed, and no later GetPendingEvents call returns the event.
C4_FailedAttempt ==
    /\ \A c \in Consumers :
          FailedAttemptDone(c) =>
              /\ rows[attempt[c].id].retryCount = attempt[c].retry + 1
              /\ rows[attempt[c].id].status = "Failed"
    /\ \A i \in 1..Len(rows) :
          rows[i].retryCount >= 1 =>
              \A n \in 0..Len(rows) \cup {BatchSize} : \A res \in GetPendingEvents(rows, n) :
                  i \notin EventIds(res.events)

\* a failed attempt is complete and the consumer is at the next event of the batch
C4_Witness ==
    /\ FailedAttemptDone(1)
    /\ pc[1] = "mark"
    /\ rows[attempt[1].id].retryCount = 1
    /\ PendingIds(rows) # {}

\* C5: the failure transition is atomic. In every reachable state an event
\* recorded as Failed carries the retryCount increment of that attempt.
C5_FailureAtomic ==
    \A i \in 1..Len(rows) :
        rows[i].status = "Failed" => rows[i].retryCount = calls[i]

\* C6: a handler failure is isolated. An invocation in which no store operation
\* failed returns nil and has marked and handled every event of its batch,
\* whatever the handler returned for the earlier ones.
C6_FailureIsolated ==
    \A c \in Consumers :
        pc[c] = "returned" =>
            /\ ret[c] = "error" => storeErr[c]
            /\ ret[c] = "nil" =>
                  /\ handled[c] = EventIds(batch[c])
                  /\ \A i \in EventIds(batch[c]) : rows[i].status \in {"Success", "Failed"}

\* the handler failed for the first event of a batch of two, and the run ended well
C6_Witness ==
    /\ pc[1] = "returned"
    /\ ret[1] = "nil"
    /\ Len(batch[1]) >= 2
    /\ rows[batch[1][1].ID].status = "Failed"
    /\ handled[1] = EventIds(batch[1])

\* C7: GetPendingEvents(n) returns at most n events, and every event it returns
\* is Pending in the store at the time of the query.
C7_LimitAndPending ==
    [][q'.asked /\ q' # q =>
          /\ Len(q'.events) <= q'.limit
          /\ \A k \in 1..Len(q'.events) : rows'[q'.events[k].ID].status = "Pending"]_vars

\* the limit cut the result: more events were pending than were asked for
C7_Witness ==
    /\ q.asked
    /\ q.limit >= 1
    /\ Len(q.events) = q.limit
    /\ Cardinality(PendingIds(rows)) > q.limit

C9_InsertedPending ==
    [][Len(rows') > Len(rows) =>
          /\ resp' = 202
          /\ rows'[Len(rows')].status = "Pending"
          /\ rows'[Len(rows')].retryCount = 0
          /\ rows'[Len(rows')].errorDetail = <<>>]_vars

\* a notification was accepted while an earlier event had already failed
C9_Witness ==
    /\ resp = 202
    /\ Len(rows) >= 2
    /\ rows[Len(rows)].status = "Pending"
    /\ rows[Len(rows)].retryCount = 0
    /\ rows[1].retryCount = 1

\* C10: the externalObjectId stored with status Success is the downstream
\* identifier the handler produced for the event in this attempt.
C10_HandlerIdStored ==
    \A i \in 1..Len(rows) :
        rows[i].status = "Success" => rows[i].jiraObjectID = produced[i]

\* ------------------------------------- direct calls of UpdateEventStatus
Details == {<<>>, << <<"a", 3>> >>}

\* a client of the store calls UpdateEventStatus(id, status, errorDetail, jiraObjectID)
UpdateCall(id, status, errorDetail, jiraObjectID) ==
    /\ rows' = UpdateEventStatus(rows, id, status, errorDetail, jiraObjectID, now)
    /\ u' = UpdateEventStatusReturn(rows, id)
    /\ UNCHANGED <<msgs, sync, bodies, given, resp, schemaNull, now, req, pc, batch, idx, herr, ret, nCons, jiraUp,
                   faults, calls, produced, handled, attempt, storeErr, q>>

\* the three ways the processing loop uses it, for ids in the store and one
\* that is not: Processing (line 209), Failed with a detail (line 224),
\* Success with an identifier (line 234)
DirectUpdate ==
    \E id \in 1..(MaxEvents + 1) :
        \/ UpdateCall(id, "Processing", <<>>, "")
        \/ \E d \in Details : UpdateCall(id, "Failed", d, "")
        \/ \E x \in JiraIds \cup {""} : UpdateCall(id, "Success", <<>>, x)

InitStore ==
    /\ InitCommon
    /\ msgs = ErrMsgs
    /\ bodies = Bodies
    /\ nCons = 1
    /\ schemaNull = FALSE
    /\ faults = 0

NextStore ==
    \/ WebhookReceive
    \/ WebhookInsert
    \/ Tick
    \/ DirectUpdate

SpecStore == InitStore /\ [][NextStore]_vars

\* ------------------------------------------ more events than one batch
\* the queue after the webhook accepted BacklogSize notifications, one per
\* tick, and before ProcessPendingEvents ran for the first time
BacklogSize == BatchSize + MaxEvents

BacklogPayload ==
    Decode(Body(TRUE, "employee.updated", [instant |-> 0, zone |-> "Z"], <<>>))

InitBacklog ==
    /\ given = [i \in 1..BacklogSize |-> BacklogPayload]
    /\ sync = NoSync
    /\ rows = [i \in 1..BacklogSize |->
                 InsertEvent(<<>>, NewEvent(BacklogPayload, i), FALSE)[1]]
    /\ now = BacklogSize
    /\ req = EmptyBag
    /\ resp = 202
    /\ pc = [c \in Consumers |-> "idle"]
    /\ batch = [c \in Consumers |-> <<>>]
    /\ idx = [c \in Consumers |-> 0]
    /\ herr = [c \in Consumers |-> NoErr]
    /\ ret = [c \in Consumers |-> "none"]
    /\ jiraUp \in BOOLEAN
    /\ calls = [i \in 1..BacklogSize |-> 0]
    /\ produced = [i \in 1..BacklogSize |-> NoId]
    /\ handled = [c \in Consumers |-> {}]
    /\ attempt = [c \in Consumers |-> NoAttempt]
    /\ storeErr = [c \in Consumers |-> FALSE]
    /\ q = NoQuery
    /\ u = "none"
    /\ msgs = ErrMsgs
    /\ bodies = Bodies
    /\ nCons = 1
    /\ schemaNull = FALSE
    /\ faults = 0

NextBacklog ==
    \/ JiraFlip
    \/ \E c \in Consumers : ConsumerOk(c)

\* every invocation runs on (each handler call returns) and is followed by
\* another one
SpecBacklog == InitBacklog /\ [][NextBacklog]_vars /\ WF_vars(ConsumerOk(1))

\* --------------------------------------------- payloads of every shape
\* the texts of eventTime a request may carry: UTC written as Z, UTC written
\* as an offset, another offset
TimeTexts == {[instant |-> 0, zone |-> z] : z \in {"Z", "+00:00", "-05:00"}}

\* the body members a request may carry: members missing, present, present
\* and empty, a nested object empty and filled
EmployeeTexts ==
    { <<>>,
      << <<"firstName", "Ann">>, <<"middleName", "">> >>,
      << <<"firstName", "Ann">>, <<"middleName", "B">>, <<"positionData", <<>> >> >>,
      << <<"firstName", "Ann">>,
         <<"positionData", << <<"jobTitle", "Clerk">>, <<"standardHours", 40>> >> >> >> }

PayloadBodies ==
    {Body(TRUE, "employee.updated", t, e) : t \in TimeTexts, e \in EmployeeTexts}

InitPayload ==
    /\ InitCommon
    /\ msgs = ErrMsgs
    /\ bodies = PayloadBodies
    /\ nCons = 1
    /\ schemaNull = FALSE
    /\ faults = 0

\* requests come in and are stored; a client reads the pending events
NextPayload ==
    \/ ~q.asked /\ (WebhookReceive \/ WebhookInsert)
    \/ Query
    \/ QueryDone

SpecPayload == InitPayload /\ [][NextPayload]_vars

\* ---------------------------------------- two invocations at the same time
\* ProcessPendingEvents is called from two goroutines (or two processes) on
\* the same table; store operations succeed
InitTwo ==
    /\ InitCommon
    /\ msgs = ErrMsgs
    /\ bodies = Bodies
    /\ nCons = 2
    /\ schemaNull = FALSE
    /\ faults = 0

NextTwo ==
    \/ WebhookReceive
    \/ WebhookInsert
    \/ JiraFlip
    \/ \E c \in Consumers : ConsumerOk(c)

SpecTwo == InitTwo /\ [][NextTwo]_vars

\* ------------------------------------- the sync loop of cmd/server/main.go
MaxEmployees == 2

Emails == {"", "ann@x.io", "bob@x.io"}

\* an employee asset as Jira returns it: an id and its attributes
Asset(id, attributes) == [ID |-> id, Attributes |-> attributes]

\* assets with an Email attribute, with an Email attribute that has no value,
\* and without one
AssetKinds(id) ==
    {Asset(id, << [attr |-> "Name", values |-> <<"n">>], [attr |-> "Email", values |-> <<e>>] >>)
        : e \in Emails \ {""}}
    \cup {Asset(id, << [attr |-> "Email", values |-> <<>>] >>),
          Asset(id, << [attr |-> "Name", values |-> <<"n">>] >>)}

RECURSIVE findEmailInAttributes(_)
\* the first value of the first Email attribute that has a value, else ""
findEmailInAttributes(attributes) ==
    IF attributes = <<>> THEN ""
    ELSE IF attributes[1].attr = "Email" /\ Len(attributes[1].values) > 0
         THEN attributes[1].values[1]
         ELSE findEmailInAttributes(Tail(attributes))

RECURSIVE BuildAssetsMap(_, _)
\* lines 96-102: jiraAssetsMap[email] = asset for every asset with an email,
\* a later asset replacing an earlier one of the same email
BuildAssetsMap(assets, map) ==
    IF assets = <<>> THEN map
    ELSE LET email == findEmailInAttributes(assets[1].Attributes)
         IN  BuildAssetsMap(Tail(assets),
                 IF email # ""
                 THEN [k \in DOMAIN map \cup {email} |->
                          IF k = email THEN assets[1].ID ELSE map[k]]
                 ELSE map)

\* the empty jiraAssetsMap
EmptyMap == [k \in {} |-> ""]

\* the runs: the assets GetAllEmployeeAssets returned and the employees
\* FetchAllEmployees returned (by their emails), before the map is built
SyncRuns ==
    {[pc |-> "build", existing |-> ex, emps |-> es, map |-> EmptyMap, i |-> 0,
      created |-> <<>>, updated |-> <<>>] :
        ex \in {<<>>} \cup {<<a>> : a \in AssetKinds("A1")},
        es \in UNION {[1..n -> Emails] : n \in 1..MaxEmployees}}

\* lines 96-102
BuildMap ==
    /\ sync.pc = "build"
    /\ sync' = [sync EXCEPT !.pc = "loop", !.i = 1,
                            !.map = BuildAssetsMap(sync.existing, EmptyMap)]
    /\ UNCHANGED <<msgs, bodies, given, u, resp, rows, schemaNull, now, req, pc, batch, idx,
                   herr, ret, nCons, jiraUp, faults, calls, produced, handled, attempt,
                   storeErr, q>>

\* lines 106-143, one employee: FindOrCreateRole (an error skips the
\* employee), then UpdateEmployeeAsset if the email is in the map and
\* CreateEmployeeAsset if not; an error of either is logged
SyncEmployee ==
    /\ sync.pc = "loop"
    /\ sync.i <= Len(sync.emps)
    /\ LET email == sync.emps[sync.i]
       IN  \E roleOk \in BOOLEAN, callOk \in BOOLEAN :
             sync' = [sync EXCEPT
                 !.i = @ + 1,
                 !.updated = IF roleOk /\ callOk /\ email \in DOMAIN sync.map
                             THEN Append(@, <<email, sync.map[email]>>) ELSE @,
                 !.created = IF roleOk /\ callOk /\ email \notin DOMAIN sync.map
                             THEN Append(@, email) ELSE @]
    /\ UNCHANGED <<msgs, bodies, given, u, resp, rows, schemaNull, now, req, pc, batch, idx,
                   herr, ret, nCons, jiraUp, faults, calls, produced, handled, attempt,
                   storeErr, q>>

\* lines 143-147: the loop is over
SyncDone ==
    /\ sync.pc = "loop"
    /\ sync.i > Len(sync.emps)
    /\ sync' = [sync EXCEPT !.pc = "done"]
    /\ UNCHANGED <<msgs, bodies, given, u, resp, rows, schemaNull, now, req, pc, batch, idx,
                   herr, ret, nCons, jiraUp, faults, calls, produced, handled, attempt,
                   storeErr, q>>

InitSync ==
    /\ rows = <<>>
    /\ now = 0
    /\ req = EmptyBag
    /\ resp = 0
    /\ pc = [c \in Consumers |-> "idle"]
    /\ batch = [c \in Consumers |-> <<>>]
    /\ idx = [c \in Consumers |-> 0]
    /\ herr = [c \in Consumers |-> NoErr]
    /\ ret = [c \in Consumers |-> "none"]
    /\ jiraUp = TRUE
    /\ calls = [i \in 1..MaxEvents |-> 0]
    /\ produced = [i \in 1..MaxEvents |-> NoId]
    /\ handled = [c \in Consumers |-> {}]
    /\ attempt = [c \in Consumers |-> NoAttempt]
    /\ storeErr = [c \in Consumers |-> FALSE]
    /\ q = NoQuery
    /\ u = "none"
    /\ given = <<>>
    /\ msgs = ErrMsgs
    /\ bodies = Bodies
    /\ nCons = 1
    /\ schemaNull = FALSE
    /\ faults = 0
    /\ sync \in SyncRuns

NextSync ==
    \/ BuildMap
    \/ SyncEmployee
    \/ SyncDone

SpecSync == InitSync /\ [][NextSync]_vars

\* ------------------------------------------- handler messages of any length
\* messages a handler may return: short, exactly at the bound, longer than the
\* bound, and two whose characters are not all one byte long
MsgInputs ==
    { << <<"a", 3>> >>,
      << <<"a", 500>> >>,
      << <<"a", 500>>, <<"b", 100>> >>,
      << <<"é", 300>> >>,
      << <<"a", 499>>, <<"é", 1>> >> }

InitMsg ==
    /\ InitCommon
    /\ msgs = MsgInputs
    /\ bodies = Bodies
    /\ nCons = 1
    /\ schemaNull = FALSE
    /\ faults = 0

SpecMsg == InitMsg /\ [][NextOk]_vars

RECURSIVE CharLen(_)
\* the number of characters of a run-encoded string
CharLen(m) == IF m = <<>> THEN 0 ELSE m[1][2] + CharLen(Tail(m))

RECURSIVE CharPrefix(_, _)
\* the first k characters of a run-encoded string
CharPrefix(m, k) ==
    IF k = 0 \/ m = <<>> THEN <<>>
    ELSE IF m[1][2] <= k
         THEN <<m[1]>> \o CharPrefix(Tail(m), k - m[1][2])
         ELSE << <<m[1][1], k>> >>

\* C11: the errorDetail stored for a handler failure with message m is m itself
\* when m has at most 500 characters and the first 500 characters of m
\* otherwise, and never has more than 500 characters.
C11_ErrorDetailTruncated ==
    \A c \in Consumers :
        pc[c] = "increment" =>
            LET m == herr[c].msg
                stored == rows[Cur(c).ID].errorDetail
            IN  /\ stored = (IF CharLen(m) <= MaxErrorLen THEN m
                             ELSE CharPrefix(m, MaxErrorLen))
                /\ CharLen(stored) <= MaxErrorLen

\* C12: ingestion is decoupled from processing. Whatever the invocations of
\* ProcessPendingEvents are doing and whether the handler fails, a request can
\* be taken in and a request that reached InsertEvent can be accepted; and no
\* step of the webhook invokes the handler.
C12_IngestionDecoupled ==
    /\ [](req # EmptyBag => ENABLED WebhookInsert)
    /\ []((/\ BagCardinality(req) < Cardinality(Requests)
           /\ Len(rows) + BagCardinality(req) < MaxEvents) => ENABLED WebhookReceive)
    /\ [][(resp' # resp \/ req' # req \/ Len(rows') # Len(rows)) =>
              /\ calls' = calls
              /\ produced' = produced]_vars

\* a notification was accepted while an invocation that does not have it in
\* its batch was waiting for a handler that is going to fail
C12_Witness ==
    /\ pc[1] = "handler"
    /\ ~jiraUp
    /\ Len(batch[1]) = 1
    /\ Len(rows) = 2
    /\ rows[2].status = "Pending"
    /\ resp = 202

\* C13: a request whose body cannot be decoded, or whose eventType is empty
\* or missing, gets 400 and inserts no row (now or later); a request with a
\* non-empty eventType gets, the insert succeeding, 202 and exactly one new
\* row, which carries that eventType.
C13_WebhookValidation ==
    /\ [][\A body \in Bodies :
            Receive(body) =>
                IF ~body.json \/ body.EventType \in {NULL, ""}
                THEN resp' = 400 /\ rows' = rows /\ req' = req
                ELSE /\ rows' = rows
                     /\ \E e \in BagToSet(req') :
                           /\ e.EventType = body.EventType
                           /\ req' = req (+) SetToBag({e})]_vars
    /\ [][Len(rows') # Len(rows) =>
            /\ resp' = 202
            /\ Len(rows') = Len(rows) + 1
            /\ SubSeq(rows', 1, Len(rows)) = rows
            /\ \E e \in BagToSet(req) :
                  /\ req' = req (-) SetToBag({e})
                  /\ rows'[Len(rows')].eventType = e.EventType
                  /\ e.EventType # ""]_vars

\* a notification was accepted, then a bad request was refused: still one row
C13_Witness ==
    /\ resp = 400
    /\ Len(rows) = 1
    /\ rows[1].eventType = "employee.updated"
    /\ req = EmptyBag

\* C14: when InsertEvent fails the webhook answers 500, the queue holds the
\* rows it held before, and the notification is gone: it is no longer among
\* the requests that may still insert.
C14_InsertFailure ==
    [][WebhookInsertFail =>
          /\ resp' = 500
          /\ rows' = rows
          /\ BagCardinality(req') = BagCardinality(req) - 1
          /\ \E e \in BagToSet(req) : req' = req (-) SetToBag({e})]_vars

\* one notification was accepted; the insert of the next one failed and
\* nothing is left to be inserted
C14_Witness ==
    /\ resp = 500
    /\ Len(rows) = 1
    /\ req = EmptyBag
    /\ faults < MaxFaults

\* the invocation c ended at lines 203-205: GetPendingEvents returned an error
RetrievalFailed(c) == pc[c] = "returned" /\ storeErr[c] /\ idx[c] = 0

\* C15: if the retrieval of the batch fails, ProcessPendingEvents returns an
\* error, has not invoked the handler, and has changed no row.
C15_RetrievalFailure ==
    /\ [](\A c \in Consumers :
            RetrievalFailed(c) => ret[c] = "error" /\ handled[c] = {} /\ batch[c] = <<>>)
    /\ [][\A c \in Consumers :
            (pc[c] = "idle" /\ pc'[c] = "returned" /\ storeErr'[c]) =>
                /\ rows' = rows
                /\ calls' = calls
                /\ produced' = produced]_vars

\* the retrieval failed while an event was waiting: it is still Pending and
\* its handler has not been called
C15_Witness ==
    /\ RetrievalFailed(1)
    /\ Len(rows) >= 1
    /\ rows[1].status = "Pending"
    /\ calls[1] = 0
    /\ rows[1].retryCount = 0

\* C16: a status update for an id that is not in the store fails with a
\* not-found error and changes no row.
C16_UpdateNotFound ==
    [][\A id \in 1..(MaxEvents + 1) : \A st \in {"Processing", "Failed", "Success"} :
        \A d \in Details : \A x \in JiraIds \cup {""} :
            (UpdateCall(id, st, d, x) /\ id \notin DOMAIN rows) =>
                u' = "not found" /\ rows' = rows]_vars

\* C18: after UpdateEventStatus(id, "Success", "", x) on a stored event, the
\* event has status Success, an empty errorDetail and externalObjectId x,
\* whatever it held before; nothing else of it and no other row changes.
C18_MarkSuccess ==
    [][\A id \in DOMAIN rows : \A x \in JiraIds \cup {""} :
        UpdateCall(id, "Success", <<>>, x) =>
            /\ u' = "nil"
            /\ DOMAIN rows' = DOMAIN rows
            /\ rows'[id].status = "Success"
            /\ rows'[id].errorDetail = <<>>
            /\ rows'[id].jiraObjectID = x
            /\ rows'[id].retryCount = rows[id].retryCount
            /\ rows'[id].payload = rows[id].payload
            /\ rows'[id].createdAt = rows[id].createdAt
            /\ \A j \in DOMAIN rows \ {id} : rows'[j] = rows[j]]_vars

\* an event marked Success with an identifier some time after it came in,
\* next to one that is Failed with a detail
C18_Witness ==
    /\ u = "nil"
    /\ Len(rows) = 2
    /\ rows[1].status = "Success"
    /\ rows[1].jiraObjectID \in JiraIds
    /\ rows[1].errorDetail = <<>>
    /\ rows[1].updatedAt > rows[1].createdAt
    /\ rows[2].status = "Failed"
    /\ rows[2].errorDetail # <<>>

\* C17: an invocation of ProcessPendingEvents handles one batch of at most 10
\* events: it retrieves the pending events once, calls the handler at most 10
\* times and at most once for an event of its batch, and then returns.
C17_OneBatch ==
    /\ [](\A c \in Consumers :
            /\ Len(batch[c]) <= 10
            /\ Cardinality(handled[c]) <= 10
            /\ handled[c] \subseteq EventIds(batch[c]))
    /\ [][\A c \in Consumers :
            /\ batch'[c] # batch[c] => (pc[c] = "idle" \/ pc'[c] = "idle")
            /\ handled'[c] # handled[c] /\ pc'[c] # "idle" =>
                  \E i \in EventIds(batch[c]) \ handled[c] :
                      /\ handled'[c] = handled[c] \cup {i}
                      /\ calls' = [calls EXCEPT ![i] = @ + 1]]_vars
    /\ [][calls' # calls => \E c \in Consumers : handled'[c] # handled[c]]_vars
    /\ (pc[1] \notin {"idle", "returned"}) ~> (pc[1] = "returned")

\* an invocation returned after ten handler calls while more events wait
C17_Witness ==
    /\ pc[1] = "returned"
    /\ ret[1] = "nil"
    /\ Cardinality(handled[1]) = 10
    /\ Cardinality(PendingIds(rows)) = BacklogSize - 10
    /\ \E i \in handled[1] : rows[i].status = "Failed"

\* C19: the payload GetPendingEvents returns for an event is equal to the
\* payload InsertEvent was called with for it.
C19_PayloadRoundTrip ==
    (q.asked /\ ~q.err) =>
        \A i \in 1..Len(q.events) : q.events[i].Payload = given[q.events[i].ID]

\* C20: of two Pending events with the same createdAt, GetPendingEvents
\* returns the one with the smaller id first, and only that one when the
\* limit cuts between them.
C20_TiesById ==
    (q.asked /\ ~q.err) =>
        /\ \A i, j \in 1..Len(q.events) :
              (i < j /\ q.events[i].CreatedAt = q.events[j].CreatedAt) =>
                  q.events[i].ID < q.events[j].ID
        /\ \A i \in 1..Len(q.events) : \A p \in PendingIds(rows) \ EventIds(q.events) :
              rows[p].createdAt = q.events[i].CreatedAt => q.events[i].ID < p

\* C21: the handler is invoked for an event only after this invocation's
\* update of it to Processing completed (never after that update failed), and
\* Success, Failed and the retry increment are recorded only after the handler
\* returned for the event, Success after nil and Failed after an error.
C21_ProcessingOrder ==
    [][\A i \in DOMAIN rows :
        /\ calls'[i] # calls[i] =>
              /\ rows[i].status = "Processing"
              /\ \E c \in Consumers : attempt[c].id = i /\ attempt[c].outcome = "open"
        /\ (rows'[i].status = "Success" /\ rows[i].status # "Success") =>
              \E c \in Consumers :
                  Cur(c).ID = i /\ i \in handled[c] /\ pc[c] = "success" /\ ~herr[c].err
        /\ (rows'[i].status = "Failed" /\ rows[i].status # "Failed") =>
              \E c \in Consumers :
                  Cur(c).ID = i /\ i \in handled[c] /\ pc[c] = "failed" /\ herr[c].err
        /\ rows'[i].retryCount # rows[i].retryCount =>
              \E c \in Consumers :
                  Cur(c).ID = i /\ i \in handled[c] /\ rows[i].status = "Failed"]_vars

\* the handler has returned for an event that is Processing and whose outcome
\* is not recorded yet, after an earlier store failure ended an invocation
C21_Witness ==
    /\ pc[1] \in {"success", "failed"}
    /\ rows[Cur(1).ID].status = "Processing"
    /\ calls[Cur(1).ID] = 1
    /\ faults < MaxFaults

\* the invocation c ended at a store write that failed inside the loop
WriteFailed(c) == pc[c] = "returned" /\ storeErr[c] /\ idx[c] >= 1

\* C22: when a store write fails during a batch, ProcessPendingEvents returns
\* the error at once: the handler has not been invoked for the later events of
\* the batch and they are still Pending, every field as it was retrieved.
C22_WriteFailureAborts ==
    \A c \in Consumers :
        WriteFailed(c) =>
            /\ ret[c] = "error"
            /\ \A j \in (idx[c] + 1)..Len(batch[c]) :
                  /\ batch[c][j].ID \notin handled[c]
                  /\ rows[batch[c][j].ID].status = "Pending"
                  /\ ScanRow(rows, batch[c][j].ID) = batch[c][j]

\* a write failed at the first event of a batch of two: the second was not
\* handled and is Pending
C22_Witness ==
    /\ WriteFailed(1)
    /\ idx[1] = 1
    /\ Len(batch[1]) = 2
    /\ rows[batch[1][2].ID].status = "Pending"
    /\ calls[batch[1][2].ID] = 0
    /\ calls[batch[1][1].ID] = 1

\* C23: with two invocations on the same store nothing keeps an event to one
\* of them. A Pending event that one invocation holds in its batch is still
\* returned to the other, and an invocation that holds an event marks it
\* Processing and calls the handler for it whatever the row's status has
\* become; so both may retrieve the same event and both handle it.
C23_DuplicateHandling ==
    \A c \in Consumers : \A d \in Consumers \ {c} :
        /\ (pc[c] = "idle" /\ c <= nCons) =>
              /\ ENABLED Start(c)
              /\ \A res \in GetPendingEvents(rows, BatchSize) :
                    \A i \in PendingIds(rows) \cap EventIds(batch[d]) :
                        i \in EventIds(res.events)
        /\ pc[c] = "mark" => ENABLED MarkProcessing(c)
        /\ pc[c] = "handler" => ENABLED CallHandler(c)

\* both invocations retrieved the same event and each has called the handler
\* for it
C23_Witness ==
    \E i \in DOMAIN rows :
        /\ i \in EventIds(batch[1]) \cap EventIds(batch[2])
        /\ i \in handled[1] \cap handled[2]
        /\ calls[i] = 2

\* the event is Processing and no invocation is between its update to
\* Processing and the recording of its outcome: the invocation that marked it
\* crashed or returned a store error
LeftProcessing(i) ==
    /\ rows[i].status = "Processing"
    /\ \A c \in Consumers :
          ~(pc[c] \in {"handler", "success", "failed"} /\ Cur(c).ID = i)

\* C24: an event left in Processing stays as it is: no later invocation
\* retrieves it, calls the handler for it or changes a field of it.
C24_ProcessingIsFinal ==
    [][\A i \in DOMAIN rows :
        LeftProcessing(i) =>
            /\ rows'[i] = rows[i]
            /\ calls'[i] = calls[i]
            /\ \A c \in Consumers :
                  batch'[c] # batch[c] => i \notin EventIds(batch'[c])]_vars

\* the first event was left in Processing; a later invocation retrieved and
\* finished the second event only
C24_Witness ==
    /\ Len(rows) = 2
    /\ LeftProcessing(1)
    /\ pc[1] = "returned"
    /\ ret[1] = "nil"
    /\ EventIds(batch[1]) = {2}
    /\ rows[2].status \in {"Success", "Failed"}

\* C25: after its insert a row is never removed and keeps its id, eventType,
\* payload and createdAt; a change of status sets updatedAt to the time of the
\* update and leaves retryCount; a change of retryCount is an increment by
\* one that sets updatedAt and leaves status, errorDetail and jiraObjectID.
C25_Frame ==
    [][/\ Len(rows') >= Len(rows)
       /\ \A i \in DOMAIN rows :
            /\ rows'[i].eventType = rows[i].eventType
            /\ rows'[i].payload = rows[i].payload
            /\ rows'[i].createdAt = rows[i].createdAt
            /\ rows'[i].status # rows[i].status =>
                  /\ rows'[i].updatedAt = now
                  /\ rows'[i].retryCount = rows[i].retryCount
            /\ rows'[i].retryCount # rows[i].retryCount =>
                  /\ rows'[i].retryCount = rows[i].retryCount + 1
                  /\ rows'[i].updatedAt = now
                  /\ rows'[i].status = rows[i].status
                  /\ rows'[i].errorDetail = rows[i].errorDetail
                  /\ rows'[i].jiraObjectID = rows[i].jiraObjectID]_vars

\* an event inserted at time 0 failed at time 1 and has its payload
C25_Witness ==
    /\ Len(rows) >= 1
    /\ rows[1].status = "Failed"
    /\ rows[1].retryCount = 1
    /\ rows[1].createdAt = 0
    /\ rows[1].updatedAt = 1
    /\ rows[1].payload = MarshalPayload(given[1])

\* C26: an event that is Pending, Processing or Failed has no external
\* object id (NULL or empty); only a Success event may have one.
C26_IdOnlyOnSuccess ==
    \A i \in DOMAIN rows :
        rows[i].status # "Success" => rows[i].jiraObjectID \in {NULL, ""}

\* one event is Success with an identifier, another was updated to
\* Processing after it came in and has none
C26_Witness ==
    /\ Len(rows) = 2
    /\ rows[2].status = "Success"
    /\ rows[2].jiraObjectID \in JiraIds
    /\ rows[1].status = "Processing"
    /\ rows[1].jiraObjectID = ""
    /\ rows[1].updatedAt > rows[1].createdAt

\* C27: with one consumer the handler is invoked at most once for an event,
\* over all invocations and whatever handler calls and store operations
\* return, and no retryCount exceeds 1.
C27_AtMostOnce ==
    \A i \in DOMAIN rows : calls[i] <= 1 /\ rows[i].retryCount <= 1

\* after a store failure, an event failed once; the next invocation found
\* nothing to do and the event still has one call and one retry
C27_Witness ==
    /\ faults < MaxFaults
    /\ Len(rows) >= 1
    /\ rows[1].status = "Failed"
    /\ rows[1].retryCount = 1
    /\ calls[1] = 1
    /\ pc[1] = "returned"
    /\ ret[1] = "nil"
    /\ batch[1] = <<>>

\* C28: also with two invocations at the same time, an event recorded as
\* Success keeps that status and its external object id.
C28_SuccessIsFinal ==
    [][\A i \in DOMAIN rows :
        rows[i].status = "Success" =>
            /\ rows'[i].status = "Success"
            /\ rows'[i].jiraObjectID = rows[i].jiraObjectID]_vars

\* C29: while an event that InsertEvent stored is Pending, a call of
\* GetPendingEvents with a limit of at least one returns events and no error.
C29_FreshRowReadable ==
    (q.asked /\ q.limit >= 1 /\ PendingIds(rows) # {}) =>
        ~q.err /\ q.events # <<>>

\* the emails of the assets fetched at the start of the run
ExistingEmails ==
    {findEmailInAttributes(sync.existing[k].Attributes) : k \in DOMAIN sync.existing} \ {""}

\* C30: in a run of the sync loop no asset is created for an employee whose
\* email is that of an asset fetched at the start, and no two assets are
\* created for the same email.
C30_NoDuplicateAssets ==
    sync.pc \in {"loop", "done"} =>
        /\ \A k \in DOMAIN sync.created : sync.created[k] \notin ExistingEmails
        /\ \A j, k \in DOMAIN sync.created :
              j # k => sync.created[j] # sync.created[k]

====
